---- MODULE Spec2Model ----
(***************************************************************************)
(* The GEMM execution path of xla/service/gpu/onednn_matmul_utils.cc:      *)
(* RunGemm derives a MatrixDescriptor for each operand, normalises a       *)
(* transposed output away (C^T = B^T @ A^T), validates the dtypes and      *)
(* dispatches to DoGemm, which builds the oneDNN shape and stride tuples,  *)
(* registers the post-operations, allocates the scratchpad and executes    *)
(* the matmul primitive on the stream.                                     *)
(*                                                                         *)
(* One behaviour is one call of RunGemm.  The initial state holds the      *)
(* arguments of the call (the GemmConfig and the three device buffers);    *)
(* the actions are the steps of the call, cut at the calls into the        *)
(* vendor library and the scratch allocator.                               *)
(*                                                                         *)
(* Numbers.  alpha and beta are floats in the source.  Here they are       *)
(* integers counting units of 2^-24, so that One stands for 1.0f and every *)
(* value used is exactly representable as a float; the comparison with the *)
(* tolerance 1e-6 is then exact integer arithmetic.  Matrix elements are   *)
(* small integers; the destination buffer holds values in the same units   *)
(* of 2^-24, and the arithmetic of the primitive is exact (the rounding of *)
(* the device is left out).                                                *)
(***************************************************************************)
EXTENDS Integers, Sequences, FiniteSets, TLC

VARIABLES
    config,         \* const GemmConfig& config
    lhs_buffer,     \* contents of the device memory behind lhs_buffer
    rhs_buffer,     \* contents of the device memory behind rhs_buffer
    output_buffer,  \* contents of the device memory behind output_buffer
    pc,             \* position in the call
    lhs,            \* MatrixDescriptor lhs    (local of RunGemm)
    rhs,            \* MatrixDescriptor rhs    (local of RunGemm)
    output,         \* MatrixDescriptor output (local of RunGemm)
    params,         \* OneDnnMatMulParams built by DoGemm
    attr,           \* dnnl::primitive_attr post_ops_attr built by DoGemm
    calls,          \* the calls made into the backend and the allocator, in order,
                    \* each with whether it succeeded
    status          \* what RunGemm returns

vars == <<config, lhs_buffer, rhs_buffer, output_buffer, pc, lhs, rhs, output,
          params, attr, calls, status>>

----------------------------------------------------------------------------
(* Bounds of the inputs *)

MaxDim == 2       \* rows and columns of a matrix are in 1..MaxDim
MaxBatch == 2     \* batch_size is in 1..MaxBatch
MaxPad == 1       \* leading_dim_stride exceeds the dense stride by 0..MaxPad
MaxPattern == 2   \* the buffers are filled with one of MaxPattern patterns

(* fabs(x) > 1e-6 : the tolerance is 1 / TolDen *)
TolDen == 1000000

(* 1.0f in units of 2^-24 *)
One == 2^24

----------------------------------------------------------------------------
(* Types of xla_data.proto used by RunGemm.  S8 stands for the types that   *)
(* reach the default: label of the switch.                                  *)

DTypes == {"F16", "BF16", "F32", "F64", "C64", "C128", "S32", "S8"}

LowercasePrimitiveTypeName(t) ==
    CASE t = "F16"  -> "f16"
      [] t = "BF16" -> "bf16"
      [] t = "F32"  -> "f32"
      [] t = "F64"  -> "f64"
      [] t = "C64"  -> "c64"
      [] t = "C128" -> "c128"
      [] t = "S32"  -> "s32"
      [] t = "S8"   -> "s8"

Orders == {"kRowMajor", "kColumnMajor"}

(* A MatrixLayout as the compiler builds it: a rows x cols matrix stored    *)
(* row by row (kRowMajor) or column by column (kColumnMajor), consecutive   *)
(* rows (columns) leading_dim_stride elements apart, consecutive matrices   *)
(* of the batch batch_stride elements apart.                                *)
MakeLayout(rows, cols, batch, order, pad, dtype) ==
    LET ld == (IF order = "kRowMajor" THEN cols ELSE rows) + pad
    IN  [num_rows           |-> rows,
         num_cols           |-> cols,
         batch_size         |-> batch,
         order              |-> order,
         leading_dim_stride |-> ld,
         batch_stride       |-> ld * (IF order = "kRowMajor" THEN rows ELSE cols),
         dtype              |-> dtype]

(* Number of elements of the buffer behind a layout *)
BufferSize(layout) == layout.batch_size * layout.batch_stride

(* The offset of element (b, i, j) of the matrix a layout describes *)
LayoutOffset(layout, b, i, j) ==
    b * layout.batch_stride
      + (IF layout.order = "kRowMajor"
           THEN i * layout.leading_dim_stride + j
           ELSE j * layout.leading_dim_stride + i)

----------------------------------------------------------------------------
(* struct MatrixDescriptor.  transpose is TRUE for se::blas::Transpose::    *)
(* kTranspose and FALSE for kNoTranspose; data names the buffer.            *)

NoDesc ==
    [data |-> "none", transpose |-> FALSE, num_rows |-> 0, num_cols |-> 0,
     batch_stride |-> 0, leading_dim_stride |-> 0]

reduced_dim(desc) ==
    IF desc.transpose THEN desc.num_rows ELSE desc.num_cols

(* Mutant: num_rows and num_cols copied without the swap for kColumnMajor *)
GetMatrixDesc_NoDimSwap(layout, data) ==
    [data               |-> data,
     transpose          |-> layout.order = "kColumnMajor",
     num_rows           |-> layout.num_rows,
     num_cols           |-> layout.num_cols,
     batch_stride       |-> layout.batch_stride,
     leading_dim_stride |-> layout.leading_dim_stride]

GetMatrixDesc(layout, data) ==
    LET transpose == layout.order = "kColumnMajor"
    IN  [data               |-> data,
         transpose          |-> transpose,
         num_rows           |-> IF transpose THEN layout.num_cols ELSE layout.num_rows,
         num_cols           |-> IF transpose THEN layout.num_rows ELSE layout.num_cols,
         batch_stride       |-> layout.batch_stride,
         leading_dim_stride |-> layout.leading_dim_stride]

(* Mutant: the transposition also exchanges num_rows and num_cols *)
TransposeMatrixDesc_SwapsDims(matrix_desc) ==
    [matrix_desc EXCEPT !.transpose = ~matrix_desc.transpose,
                        !.num_rows = matrix_desc.num_cols,
                        !.num_cols = matrix_desc.num_rows]

TransposeMatrixDesc(matrix_desc) ==
    [matrix_desc EXCEPT !.transpose = IF matrix_desc.transpose = FALSE THEN TRUE ELSE FALSE]

(* Mutant: TransposeMatrixDesc(output) left out *)
MakeBlasGemmCompatible_OutputKept(l, r, o) ==
    IF o.transpose
      THEN <<TransposeMatrixDesc(r), TransposeMatrixDesc(l), o>>
      ELSE <<l, r, o>>

(* Mutant: std::swap(lhs, rhs) left out *)
MakeBlasGemmCompatible_NoSwap(l, r, o) ==
    IF o.transpose
      THEN <<TransposeMatrixDesc(l), TransposeMatrixDesc(r), TransposeMatrixDesc(o)>>
      ELSE <<l, r, o>>

(* The three descriptors after MakeBlasGemmCompatible, as <<lhs, rhs, output>> *)
MakeBlasGemmCompatible(l, r, o) ==
    IF o.transpose
      THEN <<TransposeMatrixDesc(r), TransposeMatrixDesc(l), TransposeMatrixDesc(o)>>
      ELSE <<l, r, o>>

----------------------------------------------------------------------------
(* struct OneDnnMatMulParams and CreateMatMulParams *)

NoParams ==
    [a_dims |-> <<>>, b_dims |-> <<>>, c_dims |-> <<>>,
     a_strides |-> <<>>, b_strides |-> <<>>, c_strides |-> <<>>]

(* std::swap of the last two of three entries *)
SwapLastTwo(t) == <<t[1], t[3], t[2]>>

(* Mutant: for a transposed rhs the dims are swapped and the strides are not *)
CreateMatMulParams_RhsStridesKept(batch_size, l, r, o) ==
    LET lhs_dims    == <<batch_size, l.num_rows, l.num_cols>>
        rhs_dims    == <<batch_size, r.num_rows, r.num_cols>>
        out_dims    == <<batch_size, o.num_rows, o.num_cols>>
        lhs_strides == <<l.batch_stride, l.leading_dim_stride, 1>>
        rhs_strides == <<r.batch_stride, r.leading_dim_stride, 1>>
        out_strides == <<o.batch_stride, o.leading_dim_stride, 1>>
    IN  [a_dims    |-> IF l.transpose THEN SwapLastTwo(lhs_dims) ELSE lhs_dims,
         b_dims    |-> IF r.transpose THEN SwapLastTwo(rhs_dims) ELSE rhs_dims,
         c_dims    |-> out_dims,
         a_strides |-> IF l.transpose THEN SwapLastTwo(lhs_strides) ELSE lhs_strides,
         b_strides |-> rhs_strides,
         c_strides |-> out_strides]

CreateMatMulParams(batch_size, l, r, o) ==
    LET lhs_dims    == <<batch_size, l.num_rows, l.num_cols>>
        rhs_dims    == <<batch_size, r.num_rows, r.num_cols>>
        out_dims    == <<batch_size, o.num_rows, o.num_cols>>
        lhs_strides == <<l.batch_stride, l.leading_dim_stride, 1>>
        rhs_strides == <<r.batch_stride, r.leading_dim_stride, 1>>
        out_strides == <<o.batch_stride, o.leading_dim_stride, 1>>
    IN  [a_dims    |-> IF l.transpose THEN SwapLastTwo(lhs_dims) ELSE lhs_dims,
         b_dims    |-> IF r.transpose THEN SwapLastTwo(rhs_dims) ELSE rhs_dims,
         c_dims    |-> out_dims,
         a_strides |-> IF l.transpose THEN SwapLastTwo(lhs_strides) ELSE lhs_strides,
         b_strides |-> IF r.transpose THEN SwapLastTwo(rhs_strides) ELSE rhs_strides,
         c_strides |-> out_strides]

----------------------------------------------------------------------------
(* The post-operations DoGemm registers: C = alpha * MatMul(A, B) + beta * C *)

Fabs(x) == IF x < 0 THEN -x ELSE x

(* fabs(x) > 1e-6 for x in units of 2^-24: x / One > 1 / TolDen.  x is an   *)
(* integer, so it exceeds One / TolDen exactly when it exceeds its floor.   *)
ExceedsTolerance(x) == Fabs(x) > One \div TolDen

(* Mutant: alpha compared with 1.0f exactly, without the tolerance *)
PostOps_NoTolerance(alpha, beta) ==
    (IF alpha /= One
       THEN <<[kind |-> "eltwise_linear", scale |-> alpha]>> ELSE <<>>)
    \o
    (IF ExceedsTolerance(beta - 0)
       THEN <<[kind |-> "sum", scale |-> beta]>> ELSE <<>>)

PostOps(alpha, beta) ==
    (IF ExceedsTolerance(alpha - One)
       THEN <<[kind |-> "eltwise_linear", scale |-> alpha]>> ELSE <<>>)
    \o
    (IF ExceedsTolerance(beta - 0)
       THEN <<[kind |-> "sum", scale |-> beta]>> ELSE <<>>)

NoAttr == [scratchpad_mode |-> "library", fpmath_mode |-> "strict", post_ops |-> <<>>]

(* post_ops_attr of DoGemm<Input>; GetFP32MathMode() is the configured mode *)
PrimitiveAttr(dtype, alpha, beta) ==
    [scratchpad_mode |-> "user",
     fpmath_mode     |-> IF dtype = "F32" THEN "GetFP32MathMode" ELSE "strict",
     post_ops        |-> PostOps(alpha, beta)]

----------------------------------------------------------------------------
(* The matmul primitive of the vendor library, by its documented contract:  *)
(* dst(b, m, n) = post_ops(sum_k src(b, m, k) * weights(b, k, n)), every    *)
(* tensor read and written through its own dims and strides.                *)

(* The dims the primitive descriptor accepts *)
MatMulDimsValid(p) ==
    /\ p.a_dims[1] = p.c_dims[1] /\ p.b_dims[1] = p.c_dims[1]
    /\ p.a_dims[3] = p.b_dims[2]
    /\ p.c_dims[2] = p.a_dims[2]
    /\ p.c_dims[3] = p.b_dims[3]

StridedOffset(strides, b, i, j) == b * strides[1] + i * strides[2] + j * strides[3]

DotProduct(p, src, wei, b, i, j) ==
    LET RECURSIVE Upto(_)
        Upto(k) ==
            IF k = 0 THEN 0
            ELSE Upto(k - 1)
                   + src[StridedOffset(p.a_strides, b, i, k - 1)]
                     * wei[StridedOffset(p.b_strides, b, k - 1, j)]
    IN  Upto(p.a_dims[3])

(* x * y for x, y in units of 2^-24 *)
FxMul(x, y) == (x \div One) * y + ((x % One) * y) \div One

RECURSIVE ApplyPostOps(_, _, _)
ApplyPostOps(ops, v, old) ==
    IF ops = <<>> THEN v
    ELSE LET op == Head(ops)
         IN  ApplyPostOps(Tail(ops),
                          IF op.kind = "eltwise_linear"
                            THEN FxMul(v, op.scale)
                            ELSE v + FxMul(old, op.scale),
                          old)

(* The destination buffer after matmul_primitive.execute *)
MatMulExecute(p, ops, src, wei, dst) ==
    LET Index == (0 .. p.c_dims[1] - 1) \X (0 .. p.c_dims[2] - 1) \X (0 .. p.c_dims[3] - 1)
        At(t) == StridedOffset(p.c_strides, t[1], t[2], t[3])
    IN  [o \in DOMAIN dst |->
           IF \E t \in Index : At(t) = o
             THEN LET t == CHOOSE t \in Index : At(t) = o
                  IN  ApplyPostOps(ops,
                                   DotProduct(p, src, wei, t[1], t[2], t[3]) * One,
                                   dst[o])
             ELSE dst[o]]

----------------------------------------------------------------------------
(* The arguments of the call *)

(* Elements of the buffers are in 0..MaxVal *)
MaxVal == 2

(* alpha and beta on both sides of the tolerance, all of them floats:       *)
(* 1 + 16 * 2^-24 and 1 - 16 * 2^-24 are within 1e-6 of 1.0f, 1 + 18 * 2^-24 *)
(* and 1 - 17 * 2^-24 are not; 16 * 2^-24 is within 1e-6 of 0, -17 * 2^-24  *)
(* is not.                                                                  *)
AlphaValues == {One, 2 * One, One + 16, One + 18, One - 17}
BetaValues  == {0, One, 16, -17}

GemmConfig(l, r, o, alpha, beta) ==
    [lhs_layout |-> l, rhs_layout |-> r, output_layout |-> o,
     alpha |-> alpha, beta |-> beta]

(* Every combination of dtypes, storage orders, alpha and beta, on one shape *)
DispatchConfigs ==
    { GemmConfig(MakeLayout(MaxDim, 1, 1, lo, 0, lt),
                 MakeLayout(1, MaxDim, 1, ro, 0, rt),
                 MakeLayout(MaxDim, MaxDim, 1, oo, 0, ot), a, b) :
        lo \in Orders, ro \in Orders, oo \in Orders,
        lt \in DTypes, rt \in DTypes, ot \in DTypes,
        a \in AlphaValues, b \in BetaValues }

(* Every combination of shapes, batch sizes, paddings and storage orders,   *)
(* the rows of rhs free of the columns of lhs, on 32-bit floats             *)
ShapeConfigs ==
    { GemmConfig(MakeLayout(m, k, bt, lo, pad, "F32"),
                 MakeLayout(k2, n, bt, ro, pad, "F32"),
                 MakeLayout(m, n, bt, oo, pad, "F32"), a, b) :
        lo \in Orders, ro \in Orders, oo \in Orders,
        m \in 1 .. MaxDim, k \in 1 .. MaxDim, k2 \in 1 .. MaxDim, n \in 1 .. MaxDim,
        bt \in 1 .. MaxBatch, pad \in 0 .. MaxPad,
        a \in {One, 2 * One}, b \in {0, One} }

(* The contents of the three buffers under pattern p *)
LhsData(layout, p) ==
    [o \in 0 .. BufferSize(layout) - 1 |-> (o * p + 1) % (MaxVal + 1)]

RhsData(layout, p) ==
    [o \in 0 .. BufferSize(layout) - 1 |-> (o * (p + 1) + 2) % (MaxVal + 1)]

OutData(layout) ==
    [o \in 0 .. BufferSize(layout) - 1 |-> ((o + 1) % (MaxVal + 1)) * One]

----------------------------------------------------------------------------
(* absl::Status *)

Pending == [code |-> "pending", format |-> "", args |-> <<>>]

OkStatus == [code |-> "kOk", format |-> "", args |-> <<>>]

InternalError(format, args) == [code |-> "kInternal", format |-> format, args |-> args]

(* The error AllocateWorkspace passes on from the scratch allocator *)
AllocatorError == [code |-> "allocator", format |-> "", args |-> <<>>]

(* A dnnl::error thrown by the library leaves RunGemm as an exception *)
DnnlError == [code |-> "dnnl::error", format |-> "", args |-> <<>>]

(* CHECK aborts the process *)
CheckFailure == [code |-> "CHECK", format |-> "output.transpose == se::blas::Transpose::kNoTranspose", args |-> <<>>]

TypeMismatchFormat == "GEMM lhs type(%s) and rhs type(%s) must match output type(%s)"

UnexpectedDtypeFormat == "Unexpected GEMM dtype: %s"

----------------------------------------------------------------------------
Init ==
    /\ \E c \in DispatchConfigs \cup ShapeConfigs, p \in 1 .. MaxPattern :
         /\ config = c
         /\ lhs_buffer = LhsData(c.lhs_layout, p)
         /\ rhs_buffer = RhsData(c.rhs_layout, p)
         /\ output_buffer = OutData(c.output_layout)
    /\ pc = "RunGemm"
    /\ lhs = NoDesc
    /\ rhs = NoDesc
    /\ output = NoDesc
    /\ params = NoParams
    /\ attr = NoAttr
    /\ calls = <<>>
    /\ status = Pending

(* A call into the vendor library or the allocator, and whether it succeeded *)
Call(name, ok) == [call |-> name, ok |-> ok]

(* Mutant: the mismatch is reported only when both operands differ *)
ValidateDtypes_BothDiffer(lhs_dtype, rhs_dtype, output_dtype) ==
    IF /\ output_dtype \in {"F16", "BF16", "F32", "F64", "C64", "C128"}
       /\ (lhs_dtype /= output_dtype /\ rhs_dtype /= output_dtype)
      THEN InternalError(TypeMismatchFormat,
                         <<LowercasePrimitiveTypeName(lhs_dtype),
                           LowercasePrimitiveTypeName(rhs_dtype),
                           LowercasePrimitiveTypeName(output_dtype)>>)
      ELSE IF output_dtype \in {"F16", "BF16", "F32"}
             THEN Pending
             ELSE InternalError(UnexpectedDtypeFormat,
                                <<LowercasePrimitiveTypeName(output_dtype)>>)

(* Mutant: the switch has a case F64 that dispatches to DoGemm *)
ValidateDtypes_F64Dispatched(lhs_dtype, rhs_dtype, output_dtype) ==
    IF /\ output_dtype \in {"F16", "BF16", "F32", "F64", "C64", "C128"}
       /\ (lhs_dtype /= output_dtype \/ rhs_dtype /= output_dtype)
      THEN InternalError(TypeMismatchFormat,
                         <<LowercasePrimitiveTypeName(lhs_dtype),
                           LowercasePrimitiveTypeName(rhs_dtype),
                           LowercasePrimitiveTypeName(output_dtype)>>)
      ELSE IF output_dtype \in {"F16", "BF16", "F32", "F64"}
             THEN Pending
             ELSE InternalError(UnexpectedDtypeFormat,
                                <<LowercasePrimitiveTypeName(output_dtype)>>)

(* Mutant: the switch has no case BF16 *)
ValidateDtypes_NoBF16(lhs_dtype, rhs_dtype, output_dtype) ==
    IF /\ output_dtype \in {"F16", "BF16", "F32", "F64", "C64", "C128"}
       /\ (lhs_dtype /= output_dtype \/ rhs_dtype /= output_dtype)
      THEN InternalError(TypeMismatchFormat,
                         <<LowercasePrimitiveTypeName(lhs_dtype),
                           LowercasePrimitiveTypeName(rhs_dtype),
                           LowercasePrimitiveTypeName(output_dtype)>>)
      ELSE IF output_dtype \in {"F16", "F32"}
             THEN Pending
             ELSE InternalError(UnexpectedDtypeFormat,
                                <<LowercasePrimitiveTypeName(output_dtype)>>)

(* The dtype validation of RunGemm: the status it returns, or Pending when  *)
(* the switch dispatches to DoGemm                                          *)
ValidateDtypes(lhs_dtype, rhs_dtype, output_dtype) ==
    IF /\ output_dtype \in {"F16", "BF16", "F32", "F64", "C64", "C128"}
       /\ (lhs_dtype /= output_dtype \/ rhs_dtype /= output_dtype)
      THEN InternalError(TypeMismatchFormat,
                         <<LowercasePrimitiveTypeName(lhs_dtype),
                           LowercasePrimitiveTypeName(rhs_dtype),
                           LowercasePrimitiveTypeName(output_dtype)>>)
      ELSE IF output_dtype \in {"F16", "BF16", "F32"}
             THEN Pending
             ELSE InternalError(UnexpectedDtypeFormat,
                                <<LowercasePrimitiveTypeName(output_dtype)>>)

(* RunGemm up to the call of DoGemm *)
RunGemm ==
    /\ pc = "RunGemm"
    /\ LET l == GetMatrixDesc(config.lhs_layout, "lhs_buffer")
           r == GetMatrixDesc(config.rhs_layout, "rhs_buffer")
           o == GetMatrixDesc(config.output_layout, "output_buffer")
           d == MakeBlasGemmCompatible(l, r, o)
           s == ValidateDtypes(config.lhs_layout.dtype, config.rhs_layout.dtype,
                               config.output_layout.dtype)
       IN  /\ lhs' = d[1]
           /\ rhs' = d[2]
           /\ output' = d[3]
           /\ status' = s
           /\ pc' = IF s = Pending THEN "DoGemm" ELSE "return"
    /\ UNCHANGED <<config, lhs_buffer, rhs_buffer, output_buffer, params, attr, calls>>

(* DoGemm up to the construction of the primitive descriptor, which throws  *)
(* when the library rejects the dims or cannot build the primitive          *)
DoGemm ==
    /\ pc = "DoGemm"
    /\ IF output.transpose
         THEN /\ status' = CheckFailure
              /\ pc' = "return"
              /\ UNCHANGED <<params, attr, calls>>
         ELSE \E backend_ok \in BOOLEAN :
                LET p == CreateMatMulParams(config.output_layout.batch_size,
                                            lhs, rhs, output)
                IN  /\ params' = p
                    /\ attr' = PrimitiveAttr(config.output_layout.dtype,
                                             config.alpha, config.beta)
                    /\ calls' = calls \o <<Call("FindOrCreateEngine", TRUE),
                                            Call("matmul::primitive_desc",
                                                 backend_ok /\ MatMulDimsValid(p))>>
                    /\ IF backend_ok /\ MatMulDimsValid(p)
                         THEN pc' = "AllocateWorkspace" /\ UNCHANGED status
                         ELSE pc' = "return" /\ status' = DnnlError
    /\ UNCHANGED <<config, lhs_buffer, rhs_buffer, output_buffer, lhs, rhs, output>>

(* Mutant: the status of AllocateWorkspace is dropped *)
AllocateWorkspace_StatusDropped ==
    /\ pc = "AllocateWorkspace"
    /\ \E alloc_ok \in BOOLEAN :
         calls' = Append(calls, Call("AllocateWorkspace", alloc_ok))
    /\ pc' = "execute"
    /\ UNCHANGED <<config, lhs_buffer, rhs_buffer, output_buffer, lhs, rhs, output,
                   params, attr, status>>

(* TF_RETURN_IF_ERROR(AllocateWorkspace(...)) *)
AllocateWorkspace ==
    /\ pc = "AllocateWorkspace"
    /\ \E alloc_ok \in BOOLEAN :
         /\ calls' = Append(calls, Call("AllocateWorkspace", alloc_ok))
         /\ IF alloc_ok
              THEN pc' = "execute" /\ UNCHANGED status
              ELSE pc' = "return" /\ status' = AllocatorError
    /\ UNCHANGED <<config, lhs_buffer, rhs_buffer, output_buffer, lhs, rhs, output,
                   params, attr>>

(* The buffer a descriptor's data names *)
Buffer(desc) ==
    CASE desc.data = "lhs_buffer" -> lhs_buffer
      [] desc.data = "rhs_buffer" -> rhs_buffer
      [] desc.data = "output_buffer" -> output_buffer

(* matmul_primitive.execute(dnnl_stream, fwd_primitive_args); return OkStatus() *)
Execute ==
    /\ pc = "execute"
    /\ calls' = Append(calls, Call("matmul::execute", TRUE))
    /\ output_buffer' = MatMulExecute(params, attr.post_ops,
                                      Buffer(lhs), Buffer(rhs), Buffer(output))
    /\ status' = OkStatus
    /\ pc' = "return"
    /\ UNCHANGED <<config, lhs_buffer, rhs_buffer, lhs, rhs, output, params, attr>>

Next == RunGemm \/ DoGemm \/ AllocateWorkspace \/ Execute

Spec == Init /\ [][Next]_vars

----------------------------------------------------------------------------
(* Properties *)

Returned == pc = "return"

(* DoGemm has built its shape tuples and post-operations *)
Dispatched == attr.scratchpad_mode = "user"

Made(name) == \E i \in 1 .. Len(calls) : calls[i].call = name

Count(name) == Cardinality({i \in 1 .. Len(calls) : calls[i].call = name})

LhsDtype == config.lhs_layout.dtype
RhsDtype == config.rhs_layout.dtype
OutDtype == config.output_layout.dtype

DtypeMismatch == LhsDtype /= OutDtype \/ RhsDtype /= OutDtype

TypeMismatchError ==
    [code |-> "kInternal",
     format |-> "GEMM lhs type(%s) and rhs type(%s) must match output type(%s)",
     args |-> <<LowercasePrimitiveTypeName(LhsDtype),
                LowercasePrimitiveTypeName(RhsDtype),
                LowercasePrimitiveTypeName(OutDtype)>>]

UnexpectedDtypeError ==
    [code |-> "kInternal",
     format |-> "Unexpected GEMM dtype: %s",
     args |-> <<LowercasePrimitiveTypeName(OutDtype)>>]

(* C1: whatever the storage orders of the three layouts, the output         *)
(* descriptor that reaches DoGemm is not transposed, and the CHECK at the   *)
(* top of DoGemm never fires.                                               *)
C1_OutputNotTransposed ==
    /\ pc /= "RunGemm" => output.transpose = FALSE
    /\ status /= CheckFailure

C1_Witness ==
    /\ pc = "AllocateWorkspace"
    /\ config.output_layout.order = "kColumnMajor"
    /\ output.data = "output_buffer"
    /\ output.transpose = FALSE

(* C2, as claimed: on any dtype mismatch RunGemm returns the type-mismatch  *)
(* error naming the three dtypes, and no backend call is made.              *)
C2_AnyMismatchIsTypeMismatch ==
    DtypeMismatch =>
        /\ calls = <<>>
        /\ Returned => status = TypeMismatchError

(* C2, amended: on any dtype mismatch no backend call is made and RunGemm   *)
(* fails; the error is the type-mismatch error naming the three dtypes when *)
(* the output dtype is one of F16, BF16, F32, F64, C64, C128, and the       *)
(* unexpected-dtype error for every other output dtype.                     *)
C2_MismatchFailsBeforeBackend ==
    DtypeMismatch =>
        /\ calls = <<>>
        /\ pc \in {"RunGemm", "return"}
        /\ Returned =>
             status = IF OutDtype \in {"F16", "BF16", "F32", "F64", "C64", "C128"}
                        THEN TypeMismatchError
                        ELSE UnexpectedDtypeError

C2_Witness ==
    /\ Returned
    /\ OutDtype = "F32" /\ LhsDtype = "F32" /\ RhsDtype = "F16"
    /\ status.format = TypeMismatchFormat
    /\ status.args = <<"f32", "f16", "f32">>
    /\ calls = <<>>

(* C3, as claimed: for output dtype S32, F64, C64 or C128 RunGemm returns   *)
(* the unexpected-dtype error whatever the lhs and rhs dtypes, and no       *)
(* backend call is made.                                                    *)
C3_AlwaysUnexpectedDtype ==
    OutDtype \in {"S32", "F64", "C64", "C128"} =>
        /\ calls = <<>>
        /\ Returned => status = UnexpectedDtypeError

(* C3, amended: for output dtype S32, F64, C64 or C128 RunGemm fails and no *)
(* backend call is made; the error is the unexpected-dtype error for S32,   *)
(* and for F64, C64 and C128 when lhs and rhs have the output dtype; for    *)
(* F64, C64 and C128 with an lhs or rhs of another dtype it is the          *)
(* type-mismatch error.                                                     *)
C3_UnsupportedOutputFails ==
    OutDtype \in {"S32", "F64", "C64", "C128"} =>
        /\ calls = <<>>
        /\ pc \in {"RunGemm", "return"}
        /\ Returned =>
             status = IF OutDtype = "S32" \/ ~DtypeMismatch
                        THEN UnexpectedDtypeError
                        ELSE TypeMismatchError

C3_Witness ==
    /\ Returned
    /\ OutDtype = "C64" /\ LhsDtype = "C64" /\ RhsDtype = "C64"
    /\ status.format = UnexpectedDtypeFormat
    /\ status.args = <<"c64">>
    /\ calls = <<>>

(* C4: when the scratch allocator returns an error RunGemm returns that     *)
(* error and the primitive is never executed; in every run the allocation   *)
(* request precedes the execute.                                            *)
C4_AllocationFailureStopsTheCall ==
    /\ \A i \in 1 .. Len(calls) :
         (calls[i].call = "AllocateWorkspace" /\ ~calls[i].ok) =>
            /\ i = Len(calls)
            /\ ~Made("matmul::execute")
            /\ Returned
            /\ status = AllocatorError
    /\ \A i \in 1 .. Len(calls) :
         calls[i].call = "matmul::execute" =>
            \E j \in 1 .. i - 1 : calls[j] = Call("AllocateWorkspace", TRUE)
    /\ status = AllocatorError => Made("AllocateWorkspace")

C4_Witness ==
    /\ Returned
    /\ status = AllocatorError
    /\ Len(calls) = 3
    /\ calls[3] = Call("AllocateWorkspace", FALSE)
    /\ output_buffer = OutData(config.output_layout)

(* C5: with output dtype F16, BF16 or F32, lhs and rhs of the output dtype, *)
(* and a backend and a scratch allocator that do not fail, RunGemm returns  *)
(* success after exactly one execute of the primitive, for every            *)
(* combination of storage orders.                                           *)
C5_SupportedDtypesSucceed ==
    ( /\ Returned
      /\ OutDtype \in {"F16", "BF16", "F32"}
      /\ ~DtypeMismatch
      /\ \A i \in 1 .. Len(calls) : calls[i].ok )
    =>
    ( /\ status = OkStatus
      /\ Count("matmul::execute") = 1
      /\ calls[Len(calls)].call = "matmul::execute" )

C5_Witness ==
    /\ Returned
    /\ OutDtype = "BF16" /\ ~DtypeMismatch
    /\ config.lhs_layout.order = "kColumnMajor"
    /\ config.rhs_layout.order = "kRowMajor"
    /\ config.output_layout.order = "kColumnMajor"
    /\ status = OkStatus
    /\ Count("matmul::execute") = 1

(* |x| > 1e-6 for x in units of 2^-24, by the quotient: One / |x| < TolDen  *)
Deviates(x) == x /= 0 /\ One \div (IF x < 0 THEN -x ELSE x) < TolDen

(* C6: the post-operations of a dispatch are decided by alpha and by beta   *)
(* independently: a linear post-scale iff |alpha - 1.0| > 1e-6, a sum iff   *)
(* |beta - 0.0| > 1e-6, the post-scale before the sum when both are         *)
(* registered; (1, 0) registers nothing, (2, 0) the post-scale only, (1, 1) *)
(* the sum only, (2, 1) both.                                               *)
C6_PostOpsByAlphaAndBeta ==
    Dispatched =>
        LET ops == attr.post_ops
            linear == [kind |-> "eltwise_linear", scale |-> config.alpha]
            sum == [kind |-> "sum", scale |-> config.beta]
            scaled == Deviates(config.alpha - One)
            summed == Deviates(config.beta)
        IN  /\ scaled <=> \E i \in 1 .. Len(ops) : ops[i].kind = "eltwise_linear"
            /\ summed <=> \E i \in 1 .. Len(ops) : ops[i].kind = "sum"
            /\ Len(ops) = (IF scaled THEN 1 ELSE 0) + (IF summed THEN 1 ELSE 0)
            /\ scaled => ops[1] = linear
            /\ summed => ops[Len(ops)] = sum
            /\ (config.alpha = One /\ config.beta = 0) => ops = <<>>
            /\ (config.alpha = 2 * One /\ config.beta = 0) => ops = <<linear>>
            /\ (config.alpha = One /\ config.beta = One) => ops = <<sum>>
            /\ (config.alpha = 2 * One /\ config.beta = One) => ops = <<linear, sum>>

C6_Witness ==
    /\ Dispatched
    /\ config.alpha = 2 * One /\ config.beta = One
    /\ Len(attr.post_ops) = 2
    /\ attr.post_ops[1].kind = "eltwise_linear"
    /\ attr.post_ops[2].kind = "sum"

(* The layouts describe a product: lhs is m x k, rhs is k x n, output is    *)
(* m x n, of one batch size.                                                *)
Consistent ==
    /\ config.lhs_layout.num_cols = config.rhs_layout.num_rows
    /\ config.output_layout.num_rows = config.lhs_layout.num_rows
    /\ config.output_layout.num_cols = config.rhs_layout.num_cols
    /\ config.lhs_layout.batch_size = config.output_layout.batch_size
    /\ config.rhs_layout.batch_size = config.output_layout.batch_size

(* Element (b, i, j) of lhs @ rhs, the operands read through their layouts  *)
RECURSIVE Product(_, _, _, _)
Product(b, i, j, k) ==
    IF k = 0 THEN 0
    ELSE Product(b, i, j, k - 1)
           + lhs_buffer[LayoutOffset(config.lhs_layout, b, i, k - 1)]
             * rhs_buffer[LayoutOffset(config.rhs_layout, b, k - 1, j)]

(* C7: when the output is marked transposed (stored column-major) the       *)
(* normalisation leaves the result unchanged: what the backend has written  *)
(* at the offset of each element (b, i, j) of the output layout is the      *)
(* element (b, i, j) of lhs @ rhs, under the registered post-operations.    *)
C7_NormalizationKeepsResult ==
    ( /\ Returned
      /\ status = OkStatus
      /\ config.output_layout.order = "kColumnMajor" )
    =>
    \A b \in 0 .. config.output_layout.batch_size - 1,
       i \in 0 .. config.output_layout.num_rows - 1,
       j \in 0 .. config.output_layout.num_cols - 1 :
       LET o == LayoutOffset(config.output_layout, b, i, j)
       IN  output_buffer[o]
             = ApplyPostOps(attr.post_ops,
                            Product(b, i, j, config.lhs_layout.num_cols) * One,
                            OutData(config.output_layout)[o])

C7_Witness ==
    /\ Returned
    /\ status = OkStatus
    /\ config.output_layout.order = "kColumnMajor"
    /\ config.lhs_layout.order = "kRowMajor"
    /\ config.rhs_layout.order = "kColumnMajor"
    /\ config.output_layout.num_rows = MaxDim
    /\ config.output_layout.num_cols = MaxDim
    /\ config.lhs_layout.num_cols = MaxDim
    /\ config.output_layout.batch_size = MaxBatch
    /\ config.output_layout.leading_dim_stride > MaxDim
    /\ output_buffer /= OutData(config.output_layout)
    /\ \E o \in DOMAIN output_buffer : output_buffer[o] > MaxVal * One

(* A descriptor is the one the claim describes for a layout *)
DescribedBy(desc, layout) ==
    /\ desc.transpose <=> layout.order = "kColumnMajor"
    /\ layout.order = "kColumnMajor" =>
         desc.num_rows = layout.num_cols /\ desc.num_cols = layout.num_rows
    /\ layout.order = "kRowMajor" =>
         desc.num_rows = layout.num_rows /\ desc.num_cols = layout.num_cols
    /\ desc.batch_stride = layout.batch_stride
    /\ desc.leading_dim_stride = layout.leading_dim_stride
    /\ desc.transpose => reduced_dim(desc) = desc.num_rows
    /\ ~desc.transpose => reduced_dim(desc) = desc.num_cols

(* C8: GetMatrixDesc returns a descriptor that is transposed iff the layout *)
(* is column-major, with num_rows and num_cols exchanged exactly then and   *)
(* both strides copied; its reduced_dim() is num_rows if it is transposed   *)
(* and num_cols if it is not.  Stated of the three descriptors RunGemm      *)
(* derives: with a row-major output they reach DoGemm as derived.           *)
C8_DescriptorFromLayout ==
    /\ \A x \in {<<config.lhs_layout, "lhs_buffer">>,
                 <<config.rhs_layout, "rhs_buffer">>,
                 <<config.output_layout, "output_buffer">>} :
         /\ DescribedBy(GetMatrixDesc(x[1], x[2]), x[1])
         /\ GetMatrixDesc(x[1], x[2]).data = x[2]
    /\ (pc /= "RunGemm" /\ config.output_layout.order = "kRowMajor") =>
         /\ DescribedBy(lhs, config.lhs_layout)
         /\ DescribedBy(rhs, config.rhs_layout)
         /\ DescribedBy(output, config.output_layout)

C8_Witness ==
    /\ pc = "DoGemm"
    /\ config.output_layout.order = "kRowMajor"
    /\ config.lhs_layout.order = "kColumnMajor"
    /\ config.lhs_layout.num_rows /= config.lhs_layout.num_cols
    /\ lhs.transpose
    /\ lhs.num_rows = config.lhs_layout.num_cols
    /\ reduced_dim(lhs) = config.lhs_layout.num_cols

(* The shape and stride tuples the claim describes for a descriptor *)
ShapeOf(desc) ==
    IF desc.transpose
      THEN <<config.output_layout.batch_size, desc.num_cols, desc.num_rows>>
      ELSE <<config.output_layout.batch_size, desc.num_rows, desc.num_cols>>

StridesOf(desc) ==
    IF desc.transpose
      THEN <<desc.batch_stride, 1, desc.leading_dim_stride>>
      ELSE <<desc.batch_stride, desc.leading_dim_stride, 1>>

(* C9: the shape tuple of each operand is (batch, num_rows, num_cols) and   *)
(* its stride tuple (batch_stride, leading_dim_stride, 1), with the last    *)
(* two entries of both exchanged for an operand marked transposed and both  *)
(* left as built for one that is not.                                       *)
C9_ShapesAndStrides ==
    Dispatched =>
        /\ params.a_dims = ShapeOf(lhs) /\ params.a_strides = StridesOf(lhs)
        /\ params.b_dims = ShapeOf(rhs) /\ params.b_strides = StridesOf(rhs)
        /\ params.c_dims = ShapeOf(output) /\ params.c_strides = StridesOf(output)

C9_Witness ==
    /\ Dispatched
    /\ lhs.transpose /\ ~rhs.transpose
    /\ lhs.num_rows /= lhs.num_cols
    /\ lhs.leading_dim_stride > 1
    /\ params.a_dims = <<config.output_layout.batch_size, lhs.num_cols, lhs.num_rows>>
    /\ params.a_strides = <<lhs.batch_stride, 1, lhs.leading_dim_stride>>
    /\ params.b_strides = <<rhs.batch_stride, rhs.leading_dim_stride, 1>>

(* C10: when the layouts are dimensionally consistent the shape tuples      *)
(* handed to the backend form a valid matmul, for every combination of      *)
(* storage orders: a_dims[2] = b_dims[1], c_dims[1] = a_dims[1],            *)
(* c_dims[2] = b_dims[2] (counting from 0) and one batch entry.             *)
C10_ValidMatmulShapes ==
    (Dispatched /\ Consistent) =>
        /\ params.a_dims[3] = params.b_dims[2]
        /\ params.c_dims[2] = params.a_dims[2]
        /\ params.c_dims[3] = params.b_dims[3]
        /\ params.a_dims[1] = params.c_dims[1]
        /\ params.b_dims[1] = params.c_dims[1]
        /\ params.c_dims[1] = config.output_layout.batch_size

C10_Witness ==
    /\ Dispatched /\ Consistent
    /\ config.output_layout.order = "kColumnMajor"
    /\ config.lhs_layout.order = "kColumnMajor"
    /\ config.rhs_layout.order = "kRowMajor"
    /\ config.output_layout.num_rows /= config.output_layout.num_cols
    /\ config.lhs_layout.num_cols /= config.output_layout.num_cols
    /\ params.c_dims[2] = config.output_layout.num_cols
    /\ params.a_dims[3] = config.lhs_layout.num_cols

====
